---- MODULE Spec2Model ----
(***************************************************************************)
(* The listing mode of ansible-playbook: PlaybookCLI.run and the JSON      *)
(* helper classes of lib/ansible/cli/playbook.py.                          *)
(*                                                                         *)
(* Text is modelled structurally: a message is a record (or a sequence of  *)
(* line records) holding the fields the format string interpolates, and a  *)
(* tag list is the sequence of tags in the order they are joined.          *)
(***************************************************************************)
EXTENDS Integers, Sequences, FiniteSets, TLC

\* Plays, blocks and tasks of a run; playbook paths; entries of a summary.
MaxNodes == 5
MaxArgs == 2
MaxSummaries == 2

(***************************************************************************)
(* Python values                                                           *)
(***************************************************************************)
None == [t |-> "none", v |-> ""]
PyStr(s) == [t |-> "str", v |-> s]
PyList(l) == [t |-> "list", v |-> l]
PyDict(d) == [t |-> "dict", v |-> d]
\* An instance of a class with a json_cli_repr method returning r.
PyObj(r) == [t |-> "obj", v |-> r]
\* An instance json cannot serialize and that has no json_cli_repr.
Unserializable == [t |-> "unk", v |-> ""]

Range(s) == {s[i] : i \in 1..Len(s)}

(***************************************************************************)
(* Tags, and the two orders a tag collection is listed in.                 *)
(***************************************************************************)
\* str comparison on the tags in use, as list.sort applies it.
TagOrder == <<"a", "b", "m", "p", "x">>
TagRank(tag) == CHOOSE i \in 1..Len(TagOrder) : TagOrder[i] = tag

\* The iteration order of a Python set belongs to the interpreter process
\* (hash seed, insertion history): one order per run, any order.
ProcessOrders ==
    { [tags |-> TagOrder, hosts |-> <<"h1", "h2">>],
      [tags |-> <<"x", "p", "m", "b", "a">>, hosts |-> <<"h2", "h1">>] }
\* The process order of the run the others are compared with.
ReferenceOrder == [tags |-> <<"x", "p", "m", "b", "a">>, hosts |-> <<"h2", "h1">>]

\* list(S) / iterating S, for a set S, in a process whose order is h.
ListOfSet(S, h) == SelectSeq(h, LAMBDA e : e \in S)

RECURSIVE InsertSorted(_, _)
InsertSorted(tag, l) ==
    IF l = <<>> THEN <<tag>>
    ELSE IF TagRank(tag) <= TagRank(Head(l)) THEN <<tag>> \o l
    ELSE <<Head(l)>> \o InsertSorted(tag, Tail(l))

RECURSIVE SortTags(_)
SortTags(l) == IF l = <<>> THEN <<>> ELSE InsertSorted(Head(l), SortTags(Tail(l)))

(***************************************************************************)
(* The compiled object graph: plays, blocks and tasks.                     *)
(***************************************************************************)
MkTask(name, action, tags, sel, line) ==
    [type |-> "task", name |-> name, action |-> action, tags |-> tags,
     sel |-> sel, line |-> line, block |-> <<>>]
MkBlock(tags, items) ==
    [type |-> "block", name |-> "", action |-> "", tags |-> tags,
     sel |-> TRUE, line |-> 0, block |-> items]

\* The tasks of site.yml, by line; sel is the verdict of the tag selection
\* on the task (evaluate_tags).
Tasks ==
    { MkTask("t1", "debug", {"a"}, TRUE, 3),
      MkTask("", "shell", {}, TRUE, 5),
      MkTask("flush", "meta", {"m"}, TRUE, 7),
      MkTask("t2", "copy", {"x"}, FALSE, 9) }
\* task.get_path()
get_path(task) ==
    CASE task.line = 3 -> "site.yml:3" [] task.line = 5 -> "site.yml:5"
      [] task.line = 7 -> "site.yml:7" [] OTHER -> "site.yml:9"
PlayTagChoices == {<<>>, <<"p", "a", "p">>}
\* The blocks of a play carry the tag b, the blocks inside them none.
BlockTags(depth) == IF depth = 1 THEN {"b"} ELSE {}

RECURSIVE NodeCount(_)
NodeCount(items) ==
    IF items = <<>> THEN 0
    ELSE 1 + NodeCount(Head(items).block) + NodeCount(Tail(items))

\* The lines of the tasks of a list of items, in the order of the file.
RECURSIVE Lines(_)
Lines(items) ==
    IF items = <<>> THEN <<>>
    ELSE (IF Head(items).type = "block" THEN Lines(Head(items).block) ELSE <<Head(items).line>>)
         \o Lines(Tail(items))
\* A task is declared once, and the tasks come in the order of their lines.
Increasing(l) == \A i, j \in 1..Len(l) : i < j => l[i] < l[j]

\* The blocks of n nodes at a depth, and the item lists of m nodes in one.
RECURSIVE BlocksOfSize(_, _), ItemSeqsOfSize(_, _)
ItemsOfSize(k, depth) == (IF k = 1 THEN Tasks ELSE {}) \cup BlocksOfSize(k, depth)
ItemSeqsOfSize(m, depth) ==
    IF m = 0 THEN {<<>>}
    ELSE UNION {{l \in {<<x>> \o r : x \in ItemsOfSize(k, depth),
                                     r \in ItemSeqsOfSize(m - k, depth)} :
                   Increasing(Lines(l))} : k \in 1..m}
BlocksOfSize(n, depth) ==
    IF n = 0 THEN {}
    ELSE {MkBlock(BlockTags(depth), s) : s \in ItemSeqsOfSize(n - 1, depth + 1)}

\* Lists of blocks of m nodes in all.
RECURSIVE BlockListsOfSize(_)
BlockListsOfSize(m) ==
    IF m = 0 THEN {<<>>}
    ELSE UNION {{l \in {<<x>> \o r : x \in BlocksOfSize(k, 1), r \in BlockListsOfSize(m - k)} :
                   Increasing(Lines(l))} : k \in 1..m}

\* What play.compile() can return when n more nodes fit the bound.
CompiledWithin == [n \in 0..MaxNodes |-> UNION {BlockListsOfSize(m) : m \in 0..n}]

\* The plays of a playbook, before their blocks are compiled.
Plays ==
    { [hosts |-> "web", name |-> "site", tags |-> tg, path |-> "site.yml:1", blocks |-> <<>>] :
        tg \in PlayTagChoices }

(***************************************************************************)
(* Collaborators of the listing: tag inheritance and tag selection.        *)
(***************************************************************************)
\* task.tags: the task's own tags extended with those of its parent chain
\* (inh: the tags of the play and of every enclosing block).
TaskTags(task, inh) == inh \cup task.tags

\* block.filter_tagged_tasks(play_context, all_vars): the tasks the tag
\* selection rejects are removed at every depth; nested blocks stay.
RECURSIVE FilterItems(_)
FilterItems(items) ==
    IF items = <<>> THEN <<>>
    ELSE LET it == Head(items) IN
         IF it.type = "block"
         THEN <<[it EXCEPT !.block = FilterItems(it.block)]>> \o FilterItems(Tail(items))
         ELSE IF it.sel THEN <<it>> \o FilterItems(Tail(items))
         ELSE FilterItems(Tail(items))
filter_tagged_tasks(b) == [b EXCEPT !.block = FilterItems(b.block)]

has_tasks(b) == Len(b.block) > 0

(***************************************************************************)
(* _process_block                                                          *)
(***************************************************************************)
ListingTasks(opt) == opt.listtasks \/ opt.listtaskswithpath \/ opt.listtasksjson

EmptyResult == [taskmsg |-> <<>>, task_list |-> <<>>, all_tags |-> {}]

\* IsMeta without the test of the action.
IsMetaNever(task) == FALSE

IsMeta(task) == task.action = "meta"

\* CurTags without the tags of the task.
CurTagsOfPlay(mytags, ttags, h) == SortTags(ListOfSet(mytags, h))

\* cur_tags = list(mytags.union(set(task.tags))); cur_tags.sort()
CurTags(mytags, ttags, h) == SortTags(ListOfSet(mytags \cup ttags, h))

TaskName(task) == IF task.name # "" THEN task.name ELSE task.action

TaskLine(task, cur_tags, opt) ==
    [kind |-> "task", name |-> TaskName(task), tags |-> cur_tags,
     path |-> IF opt.listtaskswithpath THEN <<get_path(task)>> ELSE <<>>]

\* TaskCliJSON(task): name or action, the sorted tags, the path when paths
\* are listed.
TaskCliJSON(task, ttags, opt) ==
    PyObj(PyDict([name |-> PyStr(TaskName(task)),
                  tags |-> PyList([i \in 1..Cardinality(ttags) |->
                                     PyStr(SortTags(ListOfSet(ttags, TagOrder))[i])]),
                  path |-> IF opt.listtaskswithpath THEN PyStr(get_path(task)) ELSE None]))

\* AppendTask without the append to task_list.
AppendTaskTextOnly(acc, task, inh, mytags, opt, h) ==
    LET ttags == TaskTags(task, inh) IN
    [all_tags |-> acc.all_tags \cup ttags,
     taskmsg |-> IF ListingTasks(opt)
                 THEN Append(acc.taskmsg, TaskLine(task, CurTags(mytags, ttags, h), opt))
                 ELSE acc.taskmsg,
     task_list |-> acc.task_list]

\* The else branch of the loop body, for a task that is not meta.
AppendTask(acc, task, inh, mytags, opt, h) ==
    LET ttags == TaskTags(task, inh) IN
    [all_tags |-> acc.all_tags \cup ttags,
     taskmsg |-> IF ListingTasks(opt)
                 THEN Append(acc.taskmsg, TaskLine(task, CurTags(mytags, ttags, h), opt))
                 ELSE acc.taskmsg,
     task_list |-> IF ListingTasks(opt) /\ opt.listtasksjson
                   THEN Append(acc.task_list, TaskCliJSON(task, ttags, opt))
                   ELSE acc.task_list]

\* AppendBlock with the results of the nested block put first.
AppendBlockFirst(acc, r) ==
    [all_tags |-> acc.all_tags \cup r.all_tags,
     taskmsg |-> r.taskmsg \o acc.taskmsg,
     task_list |-> r.task_list \o acc.task_list]

\* AppendBlock with a line for a nested block that lists nothing.
AppendBlockGroup(acc, r) ==
    [all_tags |-> acc.all_tags \cup r.all_tags,
     taskmsg |-> IF r.taskmsg = <<>>
                 THEN Append(acc.taskmsg, [kind |-> "block", name |-> "", tags |-> <<>>,
                                           path |-> <<>>])
                 ELSE acc.taskmsg \o r.taskmsg,
     task_list |-> acc.task_list \o r.task_list]

\* task_list += block_task_list; taskmsg += block_taskmsg (all_tags is the
\* enclosing function's set, updated in place by the nested call).
AppendBlock(acc, r) ==
    [all_tags |-> acc.all_tags \cup r.all_tags,
     taskmsg |-> acc.taskmsg \o r.taskmsg,
     task_list |-> acc.task_list \o r.task_list]

RECURSIVE process_items(_, _, _, _, _, _)
process_items(items, acc, inh, mytags, opt, h) ==
    IF items = <<>> THEN acc
    ELSE LET task == Head(items)
             next == IF task.type = "block"
                     THEN AppendBlock(acc, process_items(task.block, EmptyResult,
                                                         inh \cup task.tags, mytags, opt, h))
                     ELSE IF IsMeta(task) THEN acc
                     ELSE AppendTask(acc, task, inh, mytags, opt, h)
         IN process_items(Tail(items), next, inh, mytags, opt, h)

process_block(b, inh, mytags, opt, h) ==
    process_items(b.block, EmptyResult, inh \cup b.tags, mytags, opt, h)

(***************************************************************************)
(* CLIEncoder and the summary classes                                      *)
(***************************************************************************)
remove_nulls(dict) ==
    IF dict.t = "none" THEN dict
    ELSE PyDict([k \in {k \in DOMAIN dict.v : dict.v[k].t # "none"} |-> dict.v[k]])

\* CLIEncoder.default: the TypeError of JSONEncoder.default is swallowed and
\* the method falls off its end.
default(obj) == IF obj.t = "obj" THEN remove_nulls(obj.v) ELSE None

\* json.dumps(value, cls=CLIEncoder): the document as a tree.
RECURSIVE dumps(_)
dumps(value) ==
    CASE value.t = "none" -> [t |-> "null", v |-> ""]
      [] value.t = "str" -> value
      [] value.t = "list" -> [t |-> "list", v |-> [i \in 1..Len(value.v) |-> dumps(value.v[i])]]
      [] value.t = "dict" -> [t |-> "dict", v |-> [k \in DOMAIN value.v |-> dumps(value.v[k])]]
      [] OTHER -> dumps(default(value))

PlaybookCliJSON(playbook, playbook_dir) ==
    [playbook |-> PyStr(playbook), playbook_dir |-> PyStr(playbook_dir), plays |-> None]
add_play(self, play) ==
    IF self.plays.t = "none" THEN [self EXCEPT !.plays = PyList(<<play>>)]
    ELSE [self EXCEPT !.plays = PyList(Append(self.plays.v, play))]
set_plays(self, play_list) == [self EXCEPT !.plays = PyList(play_list)]
json_repr(self) == PyDict(self)

PlayCliJSON(play) ==
    [hosts |-> PyStr(play.hosts), name |-> PyStr(play.name),
     tags |-> PyList([i \in 1..Len(play.tags) |-> PyStr(play.tags[i])]), tasks |-> None]
set_tasks(self, task_list) == [self EXCEPT !.tasks = PyList(task_list)]

(***************************************************************************)
(* PlaybookCLI.run                                                         *)
(***************************************************************************)
Paths == {"site.yml", "pipe", "missing.yml", "dir"}
exists(playbook) == playbook # "missing.yml"
isfile(playbook) == playbook = "site.yml"
S_ISFIFO(playbook) == playbook = "pipe"
get_hosts(pattern) == {"h1", "h2"}

Options ==
    [listhosts : BOOLEAN, listtasks : BOOLEAN, listtaskswithpath : BOOLEAN,
     listtasksjson : BOOLEAN, listtags : BOOLEAN]

\* self.args: parse() refuses an empty list.
ArgLists == UNION {[1..n -> Paths] : n \in 1..MaxArgs}

\* The executor returns the list of playbook entries instead of running them.
Listing(opt) ==
    opt.listhosts \/ opt.listtasks \/ opt.listtaskswithpath \/ opt.listtasksjson \/ opt.listtags

ListingTasksOrTags(opt) ==
    opt.listtags \/ opt.listtasks \/ opt.listtaskswithpath \/ opt.listtasksjson

\* PathError without the second test.
PathErrorMissingOnly(playbook) ==
    IF ~exists(playbook) THEN "could not be found" ELSE ""

\* The check of one playbook path: the message of the AnsibleError, "" if none.
PathError(playbook) ==
    IF ~exists(playbook) THEN "could not be found"
    ELSE IF ~(isfile(playbook) \/ S_ISFIFO(playbook)) THEN "does not appear to be a file"
    ELSE ""

PlaybookLine(playbook_name) == [kind |-> "playbook", body |-> playbook_name]

\* msg of one play, in a process whose iteration orders are o.
PlayMsg(i, p, opt, o) ==
    [kind |-> "play",
     body |-> [idx |-> i, hosts |-> p.hosts, name |-> p.name,
               tags |-> ListOfSet(Range(p.tags), o.tags),
               path |-> IF opt.listtaskswithpath THEN <<p.path>> ELSE <<>>,
               hosts_listed |-> IF opt.listhosts
                                THEN <<[pattern |-> p.hosts,
                                        count |-> Cardinality(get_hosts(p.hosts)),
                                        hosts |-> ListOfSet(get_hosts(p.hosts), o.hosts)]>>
                                ELSE <<>>]]

TasksHeader == [kind |-> "tasks", name |-> "", tags |-> <<>>, path |-> <<>>]

\* cur_tags = list(mytags.union(all_tags)); cur_tags.sort()
TaskTagsLine(my, all, h) ==
    [kind |-> "tasktags", name |-> "", tags |-> SortTags(ListOfSet(my \cup all, h)),
     path |-> <<>>]

\* taskmsg += block_taskmsg; task_list += block_task_list
AppendTopBlock(acc, r) ==
    [all_tags |-> acc.all_tags \cup r.all_tags,
     taskmsg |-> acc.taskmsg \o r.taskmsg,
     task_list |-> acc.task_list \o r.task_list]

\* NewAllTags without the new set.
KeepAllTags(previous) == previous

\* all_tags = set(), at the start of the listing of each play.
NewAllTags(previous) == {}

\* The loop over play.compile().
RECURSIVE list_blocks(_, _, _, _, _)
list_blocks(blocks, acc, my, opt, h) ==
    IF blocks = <<>> THEN acc
    ELSE LET block == filter_tagged_tasks(Head(blocks))
             next == IF ~has_tasks(block) THEN acc
                     ELSE AppendTopBlock(acc, process_block(block, my, my, opt, h))
         IN list_blocks(Tail(blocks), next, my, opt, h)

\* taskmsg, task_list and all_tags of a play once its blocks are listed;
\* all is all_tags as the header of the play left it.
PlayListing(p, all, opt, h) ==
    LET my == Range(p.tags)
        start == [taskmsg |-> IF ListingTasks(opt) THEN <<TasksHeader>> ELSE <<>>,
                  task_list |-> <<>>,
                  all_tags |-> all]
        r == list_blocks(p.blocks, start, my, opt, h)
    IN [r EXCEPT !.taskmsg = IF opt.listtags
                             THEN Append(r.taskmsg, TaskTagsLine(my, r.all_tags, h))
                             ELSE r.taskmsg]

NoPlay == [hosts |-> "", name |-> "", tags |-> <<>>, path |-> "", blocks |-> <<>>]

VARIABLES
    options,        \* self.options
    args,           \* self.args: the playbook paths
    pc,             \* position of run()
    argidx,         \* the path the initial check is at
    error,          \* the message of the AnsibleError raised, "" if none
    results,        \* "unset", "list" or the return code
    pbidx,          \* the entry of results being listed
    idx,            \* plays of this playbook listed so far
    play,           \* the play listed last
    budget,         \* nodes the bound still admits
    mytags, all_tags, taskmsg, task_list, curr_play, play_list, playbook_json,
    displayed,      \* what the last step gave to display.display
    displayed2,     \* the same in a run of the reference process order
    ndisplayed      \* messages displayed so far

vars == <<options, args, pc, argidx, error, results, pbidx, idx, play, budget,
          mytags, all_tags, taskmsg, task_list, curr_play, play_list,
          playbook_json, displayed, displayed2, ndisplayed>>

InitRun ==
    /\ pc = "check"
    /\ argidx = 1
    /\ error = ""
    /\ results = "unset"
    /\ pbidx = 0
    /\ idx = 0
    /\ play = NoPlay
    /\ mytags = {}
    /\ all_tags = {}
    /\ taskmsg = <<>>
    /\ task_list = <<>>
    /\ curr_play = None
    /\ play_list = <<>>
    /\ playbook_json = None
    /\ displayed = <<>>
    /\ displayed2 = <<>>
    /\ ndisplayed = 0

\* Listings of MaxArgs playbook files.
Init ==
    /\ options \in Options
    /\ args = [i \in 1..MaxArgs |-> "site.yml"]
    /\ budget = MaxNodes
    /\ InitRun

\* One iteration of the initial error check.
CheckPlaybook ==
    /\ pc = "check"
    /\ LET e == PathError(args[argidx]) IN
       IF e # ""
       THEN /\ error' = e
            /\ pc' = "error"
            /\ UNCHANGED argidx
       ELSE /\ argidx' = argidx + 1
            /\ pc' = IF argidx = Len(args) THEN "exec" ELSE "check"
            /\ UNCHANGED error
    /\ displayed' = <<>>
    /\ displayed2' = <<>>
    /\ UNCHANGED <<options, args, results, pbidx, idx, play, budget, mytags,
                   all_tags, taskmsg, task_list, curr_play, play_list, playbook_json,
                   ndisplayed>>

\* pbex.run(): the playbooks are loaded, and run unless a listing is asked for.
RunExecutor ==
    /\ pc = "exec"
    /\ IF Listing(options)
       THEN /\ results' = "list"
            /\ pbidx' = 1
            /\ pc' = "playbook"
       ELSE /\ results' \in {0, 2}
            /\ pc' = "done"
            /\ UNCHANGED pbidx
    /\ displayed' = <<>>
    /\ displayed2' = <<>>
    /\ UNCHANGED <<options, args, argidx, error, idx, play, budget, mytags,
                   all_tags, taskmsg, task_list, curr_play, play_list, playbook_json,
                   ndisplayed>>

\* The head of the loop over results.
StartPlaybook ==
    /\ pc = "playbook"
    /\ pc' = "play"
    /\ idx' = 0
    /\ playbook_json' = PlaybookCliJSON(args[pbidx], "/playbooks")
    /\ play_list' = <<>>
    /\ displayed' = IF options.listtasksjson THEN <<>> ELSE <<PlaybookLine(args[pbidx])>>
    /\ displayed2' = displayed'
    /\ ndisplayed' = ndisplayed + Len(displayed')
    /\ UNCHANGED <<options, args, argidx, error, results, pbidx, play, budget, mytags,
                   all_tags, taskmsg, task_list, curr_play>>

\* The body of the loop over p['plays'] for the next play of the playbook,
\* up to all_tags = set().
PlayHeader ==
    /\ pc = "play"
    /\ budget > 0
    /\ \E p \in Plays, o \in ProcessOrders :
        /\ play' = p
        /\ curr_play' = PlayCliJSON(p)
        /\ mytags' = Range(p.tags)
        /\ displayed' = IF options.listtasksjson THEN <<>>
                        ELSE <<PlayMsg(idx + 1, p, options, o)>>
        /\ displayed2' = IF options.listtasksjson THEN <<>>
                         ELSE <<PlayMsg(idx + 1, p, options, ReferenceOrder)>>
    /\ all_tags' = NewAllTags(all_tags)
    /\ budget' = budget - 1
    /\ ndisplayed' = ndisplayed + Len(displayed')
    /\ idx' = idx + 1
    /\ pc' = "tasks"
    /\ UNCHANGED <<options, args, argidx, error, results, pbidx, taskmsg, task_list,
                   play_list, playbook_json>>

\* The rest of the body: the listing of the blocks of the play.
ListTasks ==
    /\ pc = "tasks"
    /\ IF ListingTasksOrTags(options)
       THEN \E blocks \in CompiledWithin[budget], o \in ProcessOrders :
              LET p == [play EXCEPT !.blocks = blocks]
                  r == PlayListing(p, all_tags, options, o.tags)
                  r2 == PlayListing(p, all_tags, options, ReferenceOrder.tags)
              IN /\ play' = p
                 /\ budget' = budget - NodeCount(blocks)
                 /\ taskmsg' = r.taskmsg
                 /\ task_list' = r.task_list
                 /\ all_tags' = r.all_tags
                 /\ curr_play' = IF options.listtasksjson
                                 THEN set_tasks(curr_play, r.task_list)
                                 ELSE curr_play
                 /\ displayed' = IF options.listtasksjson THEN <<>>
                                 ELSE <<[kind |-> "tasks", body |-> r.taskmsg]>>
                 /\ displayed2' = IF options.listtasksjson THEN <<>>
                                  ELSE <<[kind |-> "tasks", body |-> r2.taskmsg]>>
       ELSE /\ displayed' = <<>>
            /\ displayed2' = <<>>
            /\ UNCHANGED <<play, budget, taskmsg, task_list, all_tags, curr_play>>
    /\ play_list' = IF options.listtasksjson
                    THEN Append(play_list, PyObj(PyDict(curr_play')))
                    ELSE play_list
    /\ ndisplayed' = ndisplayed + Len(displayed')
    /\ pc' = "play"
    /\ UNCHANGED <<options, args, argidx, error, results, pbidx, idx, mytags, playbook_json>>

\* The playbook has no further play: the end of the body of the loop over
\* results, and the return after the last playbook.  The variables the
\* next play assigns before it reads them are cleared; all_tags is kept.
EndPlaybook ==
    /\ pc = "play"
    /\ displayed' = IF options.listtasksjson
                    THEN <<[kind |-> "json",
                            body |-> dumps(json_repr(set_plays(playbook_json, play_list)))]>>
                    ELSE <<>>
    /\ displayed2' = displayed'
    /\ ndisplayed' = ndisplayed + Len(displayed')
    /\ IF pbidx < Len(args)
       THEN /\ pbidx' = pbidx + 1
            /\ pc' = "playbook"
            /\ UNCHANGED results
       ELSE /\ pc' = "done"
            /\ results' = 0
            /\ UNCHANGED pbidx
    /\ play' = NoPlay
    /\ mytags' = {}
    /\ taskmsg' = <<>>
    /\ task_list' = <<>>
    /\ curr_play' = None
    /\ play_list' = <<>>
    /\ playbook_json' = None
    /\ idx' = 0
    /\ UNCHANGED <<options, args, argidx, error, budget, all_tags>>

Next ==
    \/ CheckPlaybook
    \/ RunExecutor
    \/ StartPlaybook
    \/ PlayHeader
    \/ ListTasks
    \/ EndPlaybook

Spec == Init /\ [][Next]_vars

\* Runs over every kind of path, of playbooks of few plays and blocks.
InitCheck ==
    /\ options \in Options
    /\ args \in ArgLists
    /\ budget = MaxArgs
    /\ InitRun

SpecCheck == InitCheck /\ [][Next]_vars

(***************************************************************************)
(* The summary classes and the encoder used on their own                   *)
(***************************************************************************)
\* Objects a caller may put among the plays of a playbook summary.
SummaryValues ==
    { PyObj(PyDict([name |-> PyStr("site"), tasks |-> None])),
      PyObj(PyDict([name |-> PyStr("site"),
                    tasks |-> PyList(<<PyObj(PyDict([name |-> PyStr("t1"), path |-> None]))>>)])),
      PyObj(PyDict([name |-> Unserializable, tasks |-> None])),
      PyObj(PyDict([name |-> PyStr("site"), vars |-> PyDict([port |-> None])])),
      PyObj(PyDict([name |-> PyStr("site"), tasks |-> PyList(<<Unserializable>>)])),
      PyObj(None),
      Unserializable }

InitEnc ==
    /\ options = [listhosts |-> FALSE, listtasks |-> FALSE, listtaskswithpath |-> FALSE,
                  listtasksjson |-> TRUE, listtags |-> FALSE]
    /\ args \in {<<"site.yml">>, <<"pipe">>}
    /\ budget = 0
    /\ pc = "summary"
    /\ argidx = 1
    /\ error = ""
    /\ results = "unset"
    /\ pbidx = 0
    /\ idx = 0
    /\ play = NoPlay
    /\ mytags = {}
    /\ all_tags = {}
    /\ taskmsg = <<>>
    /\ task_list = <<>>
    /\ curr_play = None
    /\ play_list = <<>>
    /\ playbook_json = PlaybookCliJSON(args[1], "/playbooks")
    /\ displayed = <<>>
    /\ displayed2 = <<>>
    /\ ndisplayed = 0

AddPlay ==
    /\ pc = "summary"
    /\ playbook_json.plays.t = "list" => Len(playbook_json.plays.v) < MaxSummaries
    /\ \E value \in SummaryValues : playbook_json' = add_play(playbook_json, value)
    /\ UNCHANGED <<options, args, pc, argidx, error, results, pbidx, idx, play, budget,
                   mytags, all_tags, taskmsg, task_list, curr_play, play_list, displayed,
                   displayed2, ndisplayed>>

SetPlays ==
    /\ pc = "summary"
    /\ \E l \in UNION {[1..n -> SummaryValues] : n \in 0..MaxSummaries} :
         playbook_json' = set_plays(playbook_json, l)
    /\ UNCHANGED <<options, args, pc, argidx, error, results, pbidx, idx, play, budget,
                   mytags, all_tags, taskmsg, task_list, curr_play, play_list, displayed,
                   displayed2, ndisplayed>>

\* display.display(json.dumps(playbook_json.json_repr(), indent=2, cls=CLIEncoder)),
\* once the plays are set.
Dump ==
    /\ pc = "summary"
    /\ playbook_json.plays.t = "list"
    /\ pc' = "done"
    /\ displayed' = <<[kind |-> "json", body |-> dumps(json_repr(playbook_json))]>>
    /\ displayed2' = displayed'
    /\ ndisplayed' = ndisplayed + 1
    /\ UNCHANGED <<options, args, argidx, error, results, pbidx, idx, play, budget,
                   mytags, all_tags, taskmsg, task_list, curr_play, play_list,
                   playbook_json>>

NextEnc ==
    \/ AddPlay
    \/ SetPlays
    \/ Dump

SpecEnc == InitEnc /\ [][NextEnc]_vars

(***************************************************************************)
(* What the listing of a play is expected to be                            *)
(***************************************************************************)
\* A play has been listed and its results are in the variables.
Listed == pc = "play" /\ idx > 0

\* The non-meta tasks the tag selection keeps, depth first in declaration
\* order, each with the tags declared by the blocks around it.
RECURSIVE PreOrder(_, _)
PreOrder(items, around) ==
    IF items = <<>> THEN <<>>
    ELSE LET it == Head(items)
             first == IF it.type = "block" THEN PreOrder(it.block, around \cup it.tags)
                      ELSE IF it.action = "meta" \/ ~it.sel THEN <<>>
                      ELSE <<[task |-> it, around |-> around]>>
         IN first \o PreOrder(Tail(items), around)

Expected(p) == PreOrder(p.blocks, {})

\* l lists the set S sorted, each tag once.
SortedListOf(l, S) ==
    /\ Range(l) = S
    /\ \A i, j \in 1..Len(l) : i < j => TagRank(l[i]) < TagRank(l[j])

ExpectedTags(p, e) == Range(p.tags) \cup e.around \cup e.task.tags

TaskLines == SelectSeq(taskmsg, LAMBDA line : line.kind = "task")
TagsLines == SelectSeq(taskmsg, LAMBDA line : line.kind = "tasktags")

\* The task summaries of the play summary, <<>> when it holds none.
SummaryTasks == IF curr_play.tasks.t = "list" THEN curr_play.tasks.v ELSE <<>>
SummaryName(t) == t.v.v.name.v
SummaryTags(t) == [i \in 1..Len(t.v.v.tags.v) |-> t.v.v.tags.v[i].v]

ExpectedName(e) == IF e.task.name = "" THEN e.task.action ELSE e.task.name

T1 == MkTask("t1", "debug", {"a"}, TRUE, 3)
Shell == MkTask("", "shell", {}, TRUE, 5)
T2 == MkTask("t2", "copy", {"x"}, FALSE, 9)

(***************************************************************************)
(* C1: the task lines, and the tasks of the JSON model, are the non-meta   *)
(* tasks of the filtered blocks of the play in depth-first pre-order, in   *)
(* declaration order at every level, none duplicated, dropped or moved.    *)
(***************************************************************************)
C1_PreOrder ==
    Listed =>
      /\ ListingTasks(options) =>
           /\ Len(TaskLines) = Len(Expected(play))
           /\ \A i \in 1..Len(TaskLines) : TaskLines[i].name = ExpectedName(Expected(play)[i])
      /\ options.listtasksjson =>
           /\ Len(SummaryTasks) = Len(Expected(play))
           /\ \A i \in 1..Len(SummaryTasks) :
                SummaryName(SummaryTasks[i]) = ExpectedName(Expected(play)[i])

\* A task of a nested block is listed before the task that follows the block.
C1_Witness ==
    /\ Listed
    /\ options.listtasksjson
    /\ play.blocks = <<MkBlock({"b"}, <<MkBlock({}, <<T1>>), Shell>>)>>
    /\ Len(SummaryTasks) = 2
    /\ Len(TaskLines) = 2

RECURSIVE MetaDepths(_, _)
MetaDepths(items, depth) ==
    IF items = <<>> THEN {}
    ELSE (IF Head(items).type = "block" THEN MetaDepths(Head(items).block, depth + 1)
          ELSE IF Head(items).action = "meta" THEN {depth} ELSE {})
         \cup MetaDepths(Tail(items), depth)

(***************************************************************************)
(* C2: a meta task, at any depth and under every combination of the flags, *)
(* gives no task line and no task of the JSON model, and adds no tag to    *)
(* the set the TASK TAGS line is made of.                                  *)
(***************************************************************************)
C2_NoMeta ==
    Listed /\ ListingTasksOrTags(options) =>
      /\ \A i \in 1..Len(taskmsg) : taskmsg[i].name # "flush" /\ taskmsg[i].name # "meta"
                                    /\ "m" \notin Range(taskmsg[i].tags)
      /\ \A i \in 1..Len(SummaryTasks) :
           /\ SummaryName(SummaryTasks[i]) \notin {"flush", "meta"}
           /\ "m" \notin Range(SummaryTags(SummaryTasks[i]))
      /\ \A i \in 1..Len(task_list) : SummaryName(task_list[i]) \notin {"flush", "meta"}
      /\ "m" \notin all_tags

\* A meta task inside a nested block, next to a listed task, with tags listed.
C2_Witness ==
    /\ Listed
    /\ options.listtags /\ options.listtasks
    /\ 3 \in MetaDepths(play.blocks, 1)
    /\ Len(TaskLines) > 0
    /\ Len(TagsLines) = 1

RECURSIVE HasNullKey(_)
HasNullKey(doc) ==
    CASE doc.t = "dict" ->
           \E k \in DOMAIN doc.v : doc.v[k].t = "null" \/ HasNullKey(doc.v[k])
      [] doc.t = "list" -> \E i \in DOMAIN doc.v : HasNullKey(doc.v[i])
      [] OTHER -> FALSE

(***************************************************************************)
(* C4: the JSON document displayed holds no key whose value is null, at    *)
(* any level: the fields without value are removed from the playbook, the  *)
(* play and the task objects, and a value the encoder has no projection    *)
(* for is dropped.                                                         *)
(***************************************************************************)
C4_NoNullKey ==
    \A k \in 1..Len(displayed) :
      displayed[k].kind = "json" => ~HasNullKey(displayed[k].body)

SummaryMatchesLines ==
    /\ curr_play.tasks.t = "list"
    /\ Len(SummaryTasks) = Len(TaskLines)
    /\ \A i \in 1..Len(SummaryTasks) :
         /\ SummaryName(SummaryTasks[i]) = TaskLines[i].name
         /\ Range(SummaryTags(SummaryTasks[i])) = Range(TaskLines[i].tags)

(***************************************************************************)
(* C5 as stated: whenever tasks are listed, with or without JSON output,   *)
(* the summary of the play holds one task summary per task line, in the    *)
(* order of the lines.                                                     *)
(***************************************************************************)
C5_AlwaysBuilt == Listed /\ ListingTasks(options) => SummaryMatchesLines

(***************************************************************************)
(* C5 amended: with --list-tasks-json the summary of the play holds one    *)
(* task summary per task line, in the order of the lines; without it the   *)
(* summary is given no task list.                                          *)
(***************************************************************************)
C5_BuiltForJson ==
    Listed /\ ListingTasks(options) =>
      IF options.listtasksjson THEN SummaryMatchesLines ELSE curr_play.tasks = None

\* Two tasks listed for the JSON output.
C5_Witness ==
    /\ Listed
    /\ options.listtasksjson
    /\ Len(TaskLines) = 2
    /\ Len(SummaryTasks) = 2

SortedOnce(l) == \A i, j \in 1..Len(l) : i < j => TagRank(l[i]) < TagRank(l[j])

(***************************************************************************)
(* C6: every tag list displayed is sorted and holds each tag once: the     *)
(* TAGS list of the play line, of every task line, and the TASK TAGS list. *)
(***************************************************************************)
C6_TagListsSorted ==
    \A k \in 1..Len(displayed) :
      /\ displayed[k].kind = "play" => SortedOnce(displayed[k].body.tags)
      /\ displayed[k].kind = "tasks" =>
           \A i \in 1..Len(displayed[k].body) : SortedOnce(displayed[k].body[i].tags)

(***************************************************************************)
(* C7: two runs on the same playbooks, hosts and flags display the same    *)
(* messages, whatever the iteration orders of the sets of each run.        *)
(***************************************************************************)
C7_Deterministic == displayed = displayed2

RECURSIVE HasTask(_)
HasTask(items) ==
    \E i \in 1..Len(items) :
      IF items[i].type = "block" THEN HasTask(items[i].block) ELSE items[i].sel

\* The items without the blocks the selection leaves no task in.
RECURSIVE WithoutEmpty(_)
WithoutEmpty(items) ==
    IF items = <<>> THEN <<>>
    ELSE LET it == Head(items) IN
         (IF it.type = "task" THEN <<it>>
          ELSE IF HasTask(it.block) THEN <<[it EXCEPT !.block = WithoutEmpty(it.block)]>>
          ELSE <<>>)
         \o WithoutEmpty(Tail(items))

RECURSIVE EmptyDepths(_, _)
EmptyDepths(items, depth) ==
    IF items = <<>> THEN {}
    ELSE (IF Head(items).type = "block"
          THEN (IF HasTask(Head(items).block) THEN {} ELSE {depth})
               \cup EmptyDepths(Head(items).block, depth + 1)
          ELSE {})
         \cup EmptyDepths(Tail(items), depth)

(***************************************************************************)
(* C8: a block left without task by the tag selection, at any depth, adds  *)
(* no line, no task of the model and no tag, and leaves no placeholder:    *)
(* the listing is the listing of the play without that block.              *)
(***************************************************************************)
C8_EmptyBlocks ==
    Listed /\ ListingTasksOrTags(options) =>
      LET r == PlayListing([play EXCEPT !.blocks = WithoutEmpty(play.blocks)], {}, options,
                           TagOrder)
      IN /\ taskmsg = r.taskmsg
         /\ task_list = r.task_list
         /\ all_tags = r.all_tags
         /\ ListingTasks(options) => Len(TaskLines) = Len(Expected(play))
         /\ \A i \in 1..Len(taskmsg) : taskmsg[i].kind \in {"tasks", "task", "tasktags"}

\* A nested block whose only task is filtered out, before a listed task.
C8_Witness ==
    /\ Listed
    /\ options.listtasks /\ options.listtags
    /\ play.blocks = <<MkBlock({"b"}, <<T1, MkBlock({}, <<T2>>)>>)>>
    /\ 2 \in EmptyDepths(play.blocks, 1)
    /\ Len(TaskLines) = 1

ExpectedAllTags(p) ==
    Range(p.tags) \cup UNION {ExpectedTags(p, Expected(p)[i]) : i \in 1..Len(Expected(p))}

(***************************************************************************)
(* C9: with --list-tags the TASK TAGS line of a play lists the tags of the *)
(* play and of the non-meta tasks the selection keeps in that play, and no *)
(* tag seen only in an earlier play or playbook.                           *)
(***************************************************************************)
C9_TaskTags ==
    Listed /\ options.listtags =>
      /\ Len(TagsLines) = 1
      /\ taskmsg[Len(taskmsg)].kind = "tasktags"
      /\ SortedListOf(TagsLines[1].tags, ExpectedAllTags(play))

\* The second play of a playbook has no task; the first listed one tagged a.
C9_Witness ==
    /\ Listed
    /\ options.listtags /\ options.listtasksjson
    /\ Len(play_list) = 2
    /\ \E i \in 1..Len(play_list[1].v.v.tasks.v) :
         "a" \in Range(SummaryTags(play_list[1].v.v.tasks.v[i]))
    /\ play.blocks = <<>>
    /\ play.tags = <<>>
    /\ TagsLines[1].tags = <<>>

BadPath(playbook) == playbook \in {"missing.yml", "dir"}

(***************************************************************************)
(* C10: when a path among the arguments does not exist or is neither a     *)
(* file nor a pipe, the run raises the error before the playbooks are      *)
(* loaded and before anything is displayed, also when the path follows     *)
(* valid ones.                                                             *)
(***************************************************************************)
C10_FailFast ==
    (\E i \in 1..Len(args) : BadPath(args[i])) =>
      /\ pc \in {"check", "error"}
      /\ results = "unset"
      /\ ndisplayed = 0
      /\ displayed = <<>>
      /\ pc = "error" => error # "" /\ BadPath(args[argidx])

\* The error is raised for the second path, after a valid first one.
C10_Witness ==
    /\ pc = "error"
    /\ argidx = 2
    /\ ~BadPath(args[1])
    /\ Listing(options)
====
